---- MODULE Spec2Model ----
(***************************************************************************)
(* Model of src/app.py: the course-enquiry assistant.                      *)
(*                                                                         *)
(*   Spec       one session, requests handled one after another            *)
(*              (/api/query and /api/translate)                            *)
(*   SpecRetr   retrieve_relevant_info over bounded datasets               *)
(*   SpecRace   two overlapping /api/query requests of one session         *)
(*                                                                         *)
(* Strings the code transforms (query, text, model reply) are sequences    *)
(* of one-character strings, so that str.strip() is computed.  Strings the *)
(* code only compares or stores (conversation ids, languages, roles) are   *)
(* TLA+ strings.  An optional value (str | None) is <<>> for None and      *)
(* <<s>> for the string s.                                                 *)
(***************************************************************************)
EXTENDS Integers, Sequences, FiniteSets, TLC

VARIABLES session, uuids, log, prev,
          courses, instructors, matched, phase,
          cookie0, cookie, reqSession, reqData, pc, loadedFrom, loadedAt, stored

seqVars  == <<session, uuids, log, prev>>
retrVars == <<courses, instructors, matched, phase>>
raceVars == <<cookie0, cookie, reqSession, reqData, pc, loadedFrom, loadedAt, stored>>
vars     == <<seqVars, retrVars, raceVars>>

(***************************************************************************)
(* Bounds                                                                  *)
(***************************************************************************)
MaxReq == 3          \* requests handled in one session (Spec)
MaxRecords == 4      \* records in courses.json and instructors.json together

(***************************************************************************)
(* Python helpers                                                          *)
(***************************************************************************)
Whitespace == {" ", "\n", "\t"}

RECURSIVE LStrip(_)
LStrip(s) == IF s # <<>> /\ Head(s) \in Whitespace THEN LStrip(Tail(s)) ELSE s

RECURSIVE RStrip(_)
RStrip(s) == IF s # <<>> /\ s[Len(s)] \in Whitespace
             THEN RStrip(SubSeq(s, 1, Len(s) - 1)) ELSE s

\* variant: the text is used as received
Strip_none(s) == s

\* str.strip(): leading and trailing whitespace removed
Strip(s) == RStrip(LStrip(s))

\* d[k] = v on a dict (a function whose domain is the key set)
Put(d, k, v) == [x \in (DOMAIN d) \cup {k} |-> IF x = k THEN v ELSE d[x]]

EmptyDict == <<>>

\* str(uuid.uuid4()): the n-th identifier the process generates
uuid4(n) == "uuid-" \o ToString(n)

\* data.conversationId or str(uuid.uuid4()): None and "" are both falsy
ConversationId(opt, n) ==
    IF opt # <<>> /\ opt[1] # "" THEN opt[1] ELSE uuid4(n)

\* uuid4 is only evaluated when the left operand of `or` is falsy
UsesUuid(opt) == ~(opt # <<>> /\ opt[1] # "")

(***************************************************************************)
(* /api/query                                                              *)
(***************************************************************************)
SystemMessage == [role |-> "system", content |-> <<"You are a helpful course enquiry assistant.">>]

EmptyQueryReply == <<"Please enter a valid question.">>

QueryErrorPrefix == "I couldn't process that request. Please try again. (Error: "

ServerErrorPrefix == "An error occurred: "

\* if 'conversations' not in request.session: request.session['conversations'] = {}
EnsureConversations(sess) ==
    IF "conversations" \in DOMAIN sess THEN sess
    ELSE Put(sess, "conversations", EmptyDict)

\* variant: the conversation is started afresh on every request
EnsureConversation_reset(sess, cid) ==
    Put(sess, "conversations",
        Put(sess["conversations"], cid,
            << [role |-> "system", content |-> <<"You are a helpful course enquiry assistant.">>] >>))

\* if conversation_id not in request.session['conversations']: ... = [system]
EnsureConversation(sess, cid) ==
    IF cid \in DOMAIN sess["conversations"] THEN sess
    ELSE Put(sess, "conversations",
             Put(sess["conversations"], cid, <<SystemMessage>>))

\* request.session['conversations'][conversation_id].append(msg)
AppendMessage(sess, cid, msg) ==
    Put(sess, "conversations",
        Put(sess["conversations"], cid, Append(sess["conversations"][cid], msg)))

AppendUser(sess, cid, question) ==
    AppendMessage(sess, cid, [role |-> "user", content |-> question])

\* variant: the reply is inserted in front of the question it answers
AppendAssistant_beforeUser(sess, cid, response) ==
    LET h == sess["conversations"][cid]
    IN Put(sess, "conversations",
           Put(sess["conversations"], cid,
               SubSeq(h, 1, Len(h) - 1)
                 \o << [role |-> "assistant", content |-> response], h[Len(h)] >>))

AppendAssistant(sess, cid, response) ==
    AppendMessage(sess, cid, [role |-> "assistant", content |-> response])

\* variant: the error text is recorded as the assistant's turn
Generate_recordsError(sess, cid, env) ==
    LET response == IF env.kind = "ok" THEN Strip(env.text)
                    ELSE <<QueryErrorPrefix>> \o env.text \o <<")">>
    IN [session |-> AppendAssistant(sess, cid, response), response |-> response]

\* the inner try/except around model.generate_content (lines 154-162)
Generate(sess, cid, env) ==
    IF env.kind = "ok"
    THEN [session |-> AppendAssistant(sess, cid, Strip(env.text)),
          response |-> Strip(env.text)]
    ELSE [session |-> sess,
          response |-> <<QueryErrorPrefix>> \o env.text \o <<")">>]

\* variant: the conversation is initialised before the question is checked
query_initFirst(sess, data, n, env) ==
    LET question == Strip(data.query)
        conversation_id == ConversationId(data.conversationId, n)
        s2 == EnsureConversation(EnsureConversations(sess), conversation_id)
    IN IF question = <<>>
       THEN [session |-> s2, status |-> 200,
             body |-> [response |-> EmptyQueryReply], calls |-> 0,
             cid |-> conversation_id]
       ELSE LET s3 == AppendUser(s2, conversation_id, question)
            IN IF env.retrieval = "raise"
               THEN [session |-> s3, status |-> 500,
                     body |-> [detail |-> <<ServerErrorPrefix>> \o env.text],
                     calls |-> 0, cid |-> conversation_id]
               ELSE LET g == Generate(s3, conversation_id, env)
                    IN [session |-> g.session, status |-> 200,
                        body |-> [response |-> g.response], calls |-> 1,
                        cid |-> conversation_id]

\* the handler: the session it leaves, the response, the model calls made
query(sess, data, n, env) ==
    LET question == Strip(data.query)
        conversation_id == ConversationId(data.conversationId, n)
    IN IF question = <<>>
       THEN [session |-> sess, status |-> 200,
             body |-> [response |-> EmptyQueryReply], calls |-> 0,
             cid |-> conversation_id]
       ELSE LET s3 == AppendUser(EnsureConversation(EnsureConversations(sess),
                                                    conversation_id),
                                 conversation_id, question)
            IN IF env.retrieval = "raise"
               THEN [session |-> s3, status |-> 500,
                     body |-> [detail |-> <<ServerErrorPrefix>> \o env.text],
                     calls |-> 0, cid |-> conversation_id]
               ELSE LET g == Generate(s3, conversation_id, env)
                    IN [session |-> g.session, status |-> 200,
                        body |-> [response |-> g.response], calls |-> 1,
                        cid |-> conversation_id]

(***************************************************************************)
(* /api/translate                                                          *)
(***************************************************************************)
NoTextReply == <<"No text to translate">>

TranslateErrorPrefix == "Translation failed: "

\* lines 192-202: the record is stored under request.session['translations']
StoreTranslation(sess, cid, rec) ==
    LET s1 == IF "translations" \in DOMAIN sess THEN sess
              ELSE Put(sess, "translations", EmptyDict)
        s2 == IF cid \in DOMAIN s1["translations"] THEN s1
              ELSE Put(s1, "translations", Put(s1["translations"], cid, <<>>))
    IN Put(s2, "translations",
           Put(s2["translations"], cid, Append(s2["translations"][cid], rec)))

\* variant: the outcome is stored whether or not the call succeeded
TranslateGenerate_storesFailure(sess, cid, text, target_lang, env) ==
    LET translation == IF env.kind = "ok" THEN Strip(env.text)
                       ELSE <<TranslateErrorPrefix>> \o env.text
    IN [session |-> StoreTranslation(sess, cid,
                       [original |-> text, translation |-> translation,
                        language |-> target_lang]),
        translation |-> translation]

\* the inner try/except of translate (lines 187-207)
TranslateGenerate(sess, cid, text, target_lang, env) ==
    IF env.kind = "ok"
    THEN [session |-> StoreTranslation(sess, cid,
                         [original |-> text, translation |-> Strip(env.text),
                          language |-> target_lang]),
          translation |-> Strip(env.text)]
    ELSE [session |-> sess,
          translation |-> <<TranslateErrorPrefix>> \o env.text]

\* variant: the text is sent to the model without the emptiness check
translate_unchecked(sess, data, n, env) ==
    LET conversation_id == ConversationId(data.conversationId, n)
        g == TranslateGenerate(sess, conversation_id, Strip(data.text),
                               data.target_lang, env)
    IN [session |-> g.session, status |-> 200,
        body |-> [translation |-> g.translation], calls |-> 1,
        cid |-> conversation_id]

translate(sess, data, n, env) ==
    LET text == Strip(data.text)
        conversation_id == ConversationId(data.conversationId, n)
    IN IF text = <<>>
       THEN [session |-> sess, status |-> 200,
             body |-> [translation |-> NoTextReply], calls |-> 0,
             cid |-> conversation_id]
       ELSE LET g == TranslateGenerate(sess, conversation_id, text,
                                       data.target_lang, env)
            IN [session |-> g.session, status |-> 200,
                body |-> [translation |-> g.translation], calls |-> 1,
                cid |-> conversation_id]

(***************************************************************************)
(* Inputs                                                                  *)
(***************************************************************************)
Queries == { <<" ", "\n">>, <<"a">>, <<" ", "b", " ">> }

Texts == { <<>>, <<" ", "h", "\n">> }

Langs == { "es", "fr" }

OptIds == { <<>>, <<"">>, <<"c1">> }

ModelError == <<"quota exceeded">>

RawReply == <<"r", "\n">>

\* what the collaborators do during one request
NoEnv == [retrieval |-> "ok", kind |-> "none", text |-> <<>>]

QueryEnvs == { [retrieval |-> "ok", kind |-> "ok", text |-> RawReply],
               [retrieval |-> "ok", kind |-> "raise", text |-> ModelError],
               [retrieval |-> "raise", kind |-> "none", text |-> ModelError] }

TranslateEnvs == { [retrieval |-> "ok", kind |-> "ok", text |-> RawReply],
                   [retrieval |-> "ok", kind |-> "raise", text |-> ModelError] }

(***************************************************************************)
(* Spec: one session, one request at a time                                *)
(***************************************************************************)
SeqIdle == /\ session = <<>> /\ uuids = 0 /\ log = <<>> /\ prev = <<>>

RetrIdle == /\ courses = <<>> /\ instructors = <<>>
            /\ matched = <<>> /\ phase = "off"

RaceIdle == /\ cookie0 = <<>> /\ cookie = <<>> /\ reqSession = <<>>
            /\ reqData = <<>> /\ pc = <<>> /\ loadedFrom = <<>>
            /\ loadedAt = <<>> /\ stored = <<>>

Init == SeqIdle /\ RetrIdle /\ RaceIdle

Handled(endpoint, data, env, r) ==
    /\ session' = r.session
    /\ prev' = session
    /\ uuids' = IF UsesUuid(data.conversationId) THEN uuids + 1 ELSE uuids
    /\ log' = Append(log, [endpoint |-> endpoint, data |-> data, env |-> env,
                           status |-> r.status, body |-> r.body,
                           calls |-> r.calls, cid |-> r.cid])
    /\ UNCHANGED <<retrVars, raceVars>>

Query ==
    /\ Len(log) < MaxReq
    /\ \E q \in Queries, c \in OptIds, e \in QueryEnvs :
         LET data == [query |-> q, conversationId |-> c]
             env == IF Strip(q) = <<>> THEN NoEnv ELSE e
         IN Handled("query", data, env, query(session, data, uuids + 1, env))

Translate ==
    /\ Len(log) < MaxReq
    /\ \E t \in Texts, l \in Langs, c \in OptIds, e \in TranslateEnvs :
         LET data == [text |-> t, target_lang |-> l, conversationId |-> c]
             env == IF Strip(t) = <<>> THEN NoEnv ELSE e
         IN Handled("translate", data, env,
                    translate(session, data, uuids + 1, env))

Next == Query \/ Translate

Spec == Init /\ [][Next]_vars

(***************************************************************************)
(* Retrieval (lines 40-75)                                                 *)
(*                                                                         *)
(* A record is [name, description].  The sentence encoder is an opaque     *)
(* deterministic function of the text; here it maps a text to a topic      *)
(* number, and the cosine similarity of two embeddings is 2 when the       *)
(* topics agree and 1 otherwise.  Only the order of similarities matters   *)
(* to the ranking.                                                         *)
(***************************************************************************)
Names == {"A", "B", "C", "D"}

Descriptions == {"about x", "about y"}

RecordSet == [name : Names, description : Descriptions]

QueryTexts == {"x", "y"}

\* sentence_model.encode(text)
encode(text) == IF text \in {"x", "about x"} THEN 1 ELSE 2

\* cosine_similarity([query_embedding], [embedding])[0][0]
cosine_similarity(q, e) == IF q = e THEN 2 ELSE 1

\* ord() of a one-character name: Python compares strings by code point
NameKey(name) == CASE name = "A" -> 65 [] name = "B" -> 66
                   [] name = "C" -> 67 [] name = "D" -> 68

\* position of key k in the item list of a dict, 0 when absent
RECURSIVE KeyIndex(_, _, _)
KeyIndex(items, k, i) ==
    IF i > Len(items) THEN 0
    ELSE IF items[i].name = k THEN i ELSE KeyIndex(items, k, i + 1)

\* {rec['name']: encode(rec['name'] + " " + rec[text]) for rec in data}:
\* a repeated name keeps its first position and takes the last embedding
RECURSIVE embeddings(_)
embeddings(data) ==
    IF data = <<>> THEN <<>>
    ELSE LET rest == embeddings(SubSeq(data, 1, Len(data) - 1))
             rec == data[Len(data)]
             item == [name |-> rec.name, embedding |-> encode(rec.description)]
             at == KeyIndex(rest, rec.name, 1)
         IN IF at = 0 THEN Append(rest, item)
            ELSE [rest EXCEPT ![at] = item]

\* the loop of lines 56-59: (similarity, name) for every dict item
scores(items, q) ==
    [i \in 1..Len(items) |->
        <<cosine_similarity(encode(q), items[i].embedding), items[i].name>>]

\* variant: the sort key is the similarity alone
TupleLess_similarityOnly(a, b) == a[1] < b[1]

\* tuple comparison a < b of (similarity, name) pairs
TupleLess(a, b) ==
    \/ a[1] < b[1]
    \/ a[1] = b[1] /\ NameKey(a[2]) < NameKey(b[2])

\* x placed behind every element that is not smaller than it (stable)
RECURSIVE InsertDesc(_, _)
InsertDesc(sorted, x) ==
    IF sorted = <<>> THEN <<x>>
    ELSE IF TupleLess(Head(sorted), x) THEN <<x>> \o sorted
         ELSE <<Head(sorted)>> \o InsertDesc(Tail(sorted), x)

\* sorted(pairs, reverse=True)
RECURSIVE SortedDesc(_)
SortedDesc(pairs) ==
    IF pairs = <<>> THEN <<>>
    ELSE InsertDesc(SortedDesc(SubSeq(pairs, 1, Len(pairs) - 1)), pairs[Len(pairs)])

\* [name for score, name in sorted(...)[:3]]
TopNames(pairs) ==
    LET srt == SortedDesc(pairs)
        k == IF Len(srt) < 3 THEN Len(srt) ELSE 3
    IN [i \in 1..k |-> srt[i][2]]

InList(x, l) == \E i \in 1..Len(l) : l[i] = x

\* [rec for rec in data if rec['name'] in relevant]
Matching(data, relevant) ==
    LET Keep(rec) == InList(rec.name, relevant)
    IN SelectSeq(data, Keep)

retrieve_relevant_info(q) ==
    LET relevant_courses == TopNames(scores(embeddings(courses), q))
        relevant_instructors == TopNames(scores(embeddings(instructors), q))
    IN [query |-> q,
        relevant_courses |-> relevant_courses,
        relevant_instructors |-> relevant_instructors,
        matched_courses |-> Matching(courses, relevant_courses),
        matched_instructors |-> Matching(instructors, relevant_instructors)]

\* the two JSON files as loaded at start-up
InitRetr ==
    /\ SeqIdle /\ RaceIdle
    /\ \E n \in 0..MaxRecords : \E m \in 0..(MaxRecords - n) :
         /\ courses \in [1..n -> RecordSet]
         /\ instructors \in [1..m -> RecordSet]
    /\ matched = <<>>
    /\ phase = "loaded"

Retrieve ==
    /\ phase = "loaded"
    /\ \E q \in QueryTexts : matched' = retrieve_relevant_info(q)
    /\ phase' = "done"
    /\ UNCHANGED <<courses, instructors, seqVars, raceVars>>

NextRetr == Retrieve

SpecRetr == InitRetr /\ [][NextRetr]_vars

(***************************************************************************)
(* SpecRace: two overlapping /api/query requests of one session            *)
(*                                                                         *)
(* SessionMiddleware (line 27) keeps the session in a signed cookie: it    *)
(* decodes the cookie of the request into request.session before the       *)
(* handler runs and writes request.session back in the Set-Cookie header   *)
(* of the response.  cookie is the session the client holds.  The handler  *)
(* has no await, so it runs in one step on the request's own copy.         *)
(***************************************************************************)
Requests == {1, 2}

RaceQueries == { <<"a">>, <<" ", "b", " ">> }

RaceIds == { <<"c1">>, <<"c2">> }

PriorSession ==
    [conversations |->
        [c \in {"c1"} |->
            << SystemMessage,
               [role |-> "user", content |-> <<"z">>],
               [role |-> "assistant", content |-> <<"r">>] >>]]

NoRequest == [data |-> [query |-> <<>>, conversationId |-> <<>>], env |-> NoEnv]

\* variant: a store shared by the requests, to which each request appends
\* the messages it added
SetCookie_merged(cur, loaded, sess) ==
    LET cs == IF "conversations" \in DOMAIN sess THEN sess["conversations"] ELSE <<>>
        cc == IF "conversations" \in DOMAIN cur THEN cur["conversations"] ELSE <<>>
        cl == IF "conversations" \in DOMAIN loaded THEN loaded["conversations"] ELSE <<>>
        Added(c) == SubSeq(cs[c], (IF c \in DOMAIN cl THEN Len(cl[c]) ELSE 1) + 1,
                           Len(cs[c]))
    IN [conversations |->
          [c \in (DOMAIN cs) \cup (DOMAIN cc) |->
              IF c \in DOMAIN cc
              THEN (IF c \in DOMAIN cs THEN cc[c] \o Added(c) ELSE cc[c])
              ELSE cs[c]]]

\* the session the client holds after a response: the middleware sends the
\* session when it is non-empty, clears the cookie when the session became
\* empty, and sends no cookie when it was and stayed empty
SetCookie(cur, loaded, sess) ==
    IF sess = <<>> /\ loaded = <<>> THEN cur ELSE sess

InitRace ==
    /\ SeqIdle /\ RetrIdle
    /\ cookie0 \in {<<>>, PriorSession}
    /\ cookie = cookie0
    /\ reqSession = [r \in Requests |-> <<>>]
    /\ reqData = [r \in Requests |-> NoRequest]
    /\ pc = [r \in Requests |-> "new"]
    /\ loadedFrom = [r \in Requests |-> <<>>]
    /\ loadedAt = [r \in Requests |-> 0]
    /\ stored = <<>>

\* the request arrives: request.session is decoded from its cookie
Load(r) ==
    /\ pc[r] = "new"
    /\ reqSession' = [reqSession EXCEPT ![r] = cookie]
    /\ loadedFrom' = [loadedFrom EXCEPT ![r] = cookie]
    /\ loadedAt' = [loadedAt EXCEPT ![r] = Len(stored)]
    /\ pc' = [pc EXCEPT ![r] = "loaded"]
    /\ UNCHANGED <<cookie0, cookie, reqData, stored, seqVars, retrVars>>

\* the handler runs on request.session
Handle(r) ==
    /\ pc[r] = "loaded"
    /\ \E q \in RaceQueries, c \in RaceIds, e \in QueryEnvs :
         LET data == [query |-> q, conversationId |-> c]
         IN /\ reqSession' = [reqSession EXCEPT
                                 ![r] = query(reqSession[r], data, r, e).session]
            /\ reqData' = [reqData EXCEPT ![r] = [data |-> data, env |-> e]]
    /\ pc' = [pc EXCEPT ![r] = "handled"]
    /\ UNCHANGED <<cookie0, cookie, loadedFrom, loadedAt, stored, seqVars, retrVars>>

\* the response reaches the client, which keeps the cookie it carries
Store(r) ==
    /\ pc[r] = "handled"
    /\ cookie' = SetCookie(cookie, loadedFrom[r], reqSession[r])
    /\ stored' = Append(stored, r)
    /\ pc' = [pc EXCEPT ![r] = "done"]
    /\ UNCHANGED <<cookie0, reqSession, reqData, loadedFrom, loadedAt, seqVars, retrVars>>

NextRace == \E r \in Requests : Load(r) \/ Handle(r) \/ Store(r)

SpecRace == InitRace /\ [][NextRace]_vars

(***************************************************************************)
(* Reading the session                                                     *)
(***************************************************************************)
Last == log[Len(log)]

Conv(sess) == IF "conversations" \in DOMAIN sess THEN sess["conversations"] ELSE <<>>

History(sess, cid) == IF cid \in DOMAIN Conv(sess) THEN Conv(sess)[cid] ELSE <<>>

Trans(sess) == IF "translations" \in DOMAIN sess THEN sess["translations"] ELSE <<>>

TransList(sess, cid) == IF cid \in DOMAIN Trans(sess) THEN Trans(sess)[cid] ELSE <<>>

IsPrefix(s, t) == Len(s) <= Len(t) /\ SubSeq(t, 1, Len(s)) = s

AllWhitespace(s) == \A i \in 1..Len(s) : s[i] \in {" ", "\n", "\t"}

Roles(h) == [i \in 1..Len(h) |-> h[i].role]

\* the request is a /api/query with a usable question whose retrieval worked
IsQueryAt(i) == /\ log[i].endpoint = "query"
                /\ ~AllWhitespace(log[i].data.query)
                /\ log[i].env.retrieval = "ok"

IsAnsweredQueryAt(i) == IsQueryAt(i) /\ log[i].env.kind = "ok"

\* every request so far carried conversationId c and was answered by the model
AllAnsweredWith(c) ==
    /\ log # <<>>
    /\ \A i \in 1..Len(log) :
         IsAnsweredQueryAt(i) /\ log[i].data.conversationId = <<c>>

RECURSIVE Exchanges(_)
Exchanges(n) ==
    IF n = 0 THEN <<>>
    ELSE Exchanges(n - 1) \o
         << [role |-> "user", content |-> Strip(log[n].data.query)],
            [role |-> "assistant", content |-> log[n].body.response] >>

SystemOnly == << [role |-> "system", content |-> <<"You are a helpful course enquiry assistant.">>] >>

CarriedIds == { o[1] : o \in OptIds \ {<<>>} }

(***************************************************************************)
(* C1                                                                      *)
(***************************************************************************)
\* C1 as stated: for every conversationId carried by all requests (the empty
\* string included), after answered queries only, the stored history of that
\* conversation is the system message followed by one (user, assistant) pair
\* per request, in request order.
C1_AsStated ==
    \A c \in CarriedIds :
        AllAnsweredWith(c) => History(session, c) = SystemOnly \o Exchanges(Len(log))

\* C1 amended: the same for every non-empty conversationId; an empty
\* conversationId is replaced by a fresh identifier on every request.
C1_HistoryInOrder ==
    \A c \in CarriedIds \ {""} :
        AllAnsweredWith(c) => History(session, c) = SystemOnly \o Exchanges(Len(log))

C1_Witness ==
    /\ Len(log) >= 2
    /\ AllAnsweredWith("c1")
    /\ Strip(log[1].data.query) # Strip(log[2].data.query)
    /\ Roles(History(session, "c1"))
         = <<"system", "user", "assistant", "user", "assistant">>

(***************************************************************************)
(* C2                                                                      *)
(***************************************************************************)
BaseHistory(cid) == IF History(prev, cid) = <<>> THEN SystemOnly ELSE History(prev, cid)

ModelFailedQuery == /\ log # <<>>
                    /\ IsQueryAt(Len(log))
                    /\ Last.env.kind = "raise"

\* C2: when the model call raises during /api/query, the response is a
\* success carrying the error indicator and the conversation gains the user
\* turn only; no other conversation changes.
C2_ModelFailure ==
    ModelFailedQuery =>
        /\ Last.status = 200
        /\ Head(Last.body.response)
             = "I couldn't process that request. Please try again. (Error: "
        /\ History(session, Last.cid)
             = Append(BaseHistory(Last.cid),
                      [role |-> "user", content |-> Strip(Last.data.query)])
        /\ \A c \in DOMAIN Conv(session) \ {Last.cid} :
             History(session, c) = History(prev, c)

C2_Witness ==
    /\ ModelFailedQuery
    /\ Len(History(prev, Last.cid)) >= 3
    /\ Len(History(session, Last.cid)) = Len(History(prev, Last.cid)) + 1

(***************************************************************************)
(* C3                                                                      *)
(***************************************************************************)
EmptyQuery == /\ log # <<>>
              /\ Last.endpoint = "query"
              /\ AllWhitespace(Last.data.query)

\* C3: an empty or whitespace-only query is answered with the fixed reply
\* and the model is not called.
C3_EmptyQuery ==
    EmptyQuery =>
        /\ Last.status = 200
        /\ Last.body = [response |-> <<"Please enter a valid question.">>]
        /\ Last.calls = 0

C3_Witness ==
    /\ EmptyQuery
    /\ Last.data.query # <<>>
    /\ Last.data.conversationId = <<"c1">>
    /\ Len(History(session, "c1")) >= 3

(***************************************************************************)
(* C4                                                                      *)
(***************************************************************************)
EmptyText == /\ log # <<>>
             /\ Last.endpoint = "translate"
             /\ AllWhitespace(Last.data.text)

\* C4: an empty text is answered with the fixed translation reply and the
\* model is not called.
C4_EmptyText ==
    EmptyText =>
        /\ Last.status = 200
        /\ Last.body = [translation |-> <<"No text to translate">>]
        /\ Last.calls = 0

C4_Witness ==
    /\ EmptyText
    /\ Last.data.target_lang = "fr"
    /\ Last.data.conversationId = <<"c1">>
    /\ session # <<>>

(***************************************************************************)
(* C7                                                                      *)
(***************************************************************************)
TranslateRequest == /\ log # <<>>
                    /\ Last.endpoint = "translate"
                    /\ ~AllWhitespace(Last.data.text)

\* C7: a failed model call in /api/translate is returned as a textual
\* translation in a success response and stores nothing; a successful call
\* appends exactly one record to the list of the request's conversation.
C7_TranslateRecord ==
    TranslateRequest =>
        /\ Last.status = 200
        /\ Last.env.kind = "raise" =>
             /\ Head(Last.body.translation) = "Translation failed: "
             /\ session = prev
        /\ Last.env.kind = "ok" =>
             /\ TransList(session, Last.cid)
                  = Append(TransList(prev, Last.cid),
                           [original |-> Strip(Last.data.text),
                            translation |-> Last.body.translation,
                            language |-> Last.data.target_lang])
             /\ DOMAIN Trans(session) = DOMAIN Trans(prev) \cup {Last.cid}
             /\ \A c \in DOMAIN Trans(session) \ {Last.cid} :
                  TransList(session, c) = TransList(prev, c)

C7_Witness ==
    /\ TranslateRequest
    /\ Last.env.kind = "raise"
    /\ Len(TransList(session, Last.cid)) = 1
    /\ Len(log) >= 2
    /\ log[Len(log) - 1].endpoint = "translate"
    /\ log[Len(log) - 1].env.kind = "ok"

(***************************************************************************)
(* C9                                                                      *)
(***************************************************************************)
WellFormed(h) ==
    /\ h # <<>>
    /\ h[1].role = "system"
    /\ \A i \in 2..Len(h) :
         /\ h[i].role # "system"
         /\ h[i].role = "assistant" => h[i - 1].role = "user"

\* C9: every stored history is non-empty, has the system message first and
\* only there, has a user message before every assistant message, and
\* extends the history the conversation had before the request.
C9_AppendOnly ==
    /\ \A c \in DOMAIN Conv(session) : WellFormed(Conv(session)[c])
    /\ \A c \in DOMAIN Conv(prev) :
         /\ c \in DOMAIN Conv(session)
         /\ IsPrefix(Conv(prev)[c], Conv(session)[c])

C9_Witness ==
    /\ Roles(History(session, "c1")) = <<"system", "user", "user", "assistant">>
    /\ Roles(History(prev, "c1")) = <<"system", "user">>

(***************************************************************************)
(* C10                                                                     *)
(***************************************************************************)
\* C10: a request rejected as empty leaves the session as it was, and
\* /api/translate never changes the conversation histories.
C10_Frame ==
    /\ (EmptyQuery \/ EmptyText) => session = prev
    /\ (log # <<>> /\ Last.endpoint = "translate") =>
         /\ ("conversations" \in DOMAIN session) = ("conversations" \in DOMAIN prev)
         /\ Conv(session) = Conv(prev)

C10_Witness ==
    /\ EmptyQuery
    /\ Last.data.conversationId = <<"c1">>
    /\ "c1" \notin DOMAIN Conv(session)
    /\ Len(log) >= 2
    /\ log[Len(log) - 1].endpoint = "translate"
    /\ log[Len(log) - 1].env.kind = "ok"

(***************************************************************************)
(* Reading a retrieval result                                              *)
(***************************************************************************)
NamesOf(data) == { data[i].name : i \in 1..Len(data) }

\* the similarity the ranking uses for a name: that of its last record
RECURSIVE SimOfName(_, _, _)
SimOfName(data, name, q) ==
    IF data[Len(data)].name = name
    THEN (IF (data[Len(data)].description = "about x") = (q = "x") THEN 2 ELSE 1)
    ELSE SimOfName(SubSeq(data, 1, Len(data) - 1), name, q)

\* name n is ranked before name m: higher similarity, or equal and later name
RankedBefore(data, n, m, q) ==
    \/ SimOfName(data, n, q) > SimOfName(data, m, q)
    \/ /\ SimOfName(data, n, q) = SimOfName(data, m, q)
       /\ NameKey(n) > NameKey(m)

\* fewer than 3 names of the category have a strictly higher similarity
AmongTop3(data, n, q) ==
    Cardinality({ m \in NamesOf(data) : SimOfName(data, m, q) > SimOfName(data, n, q) }) < 3

Min3(k) == IF k < 3 THEN k ELSE 3

\* first names in dataset order by similarity alone: what a stable sort on
\* the similarity would select
StableRank(data, n, q) ==
    Cardinality({ m \in NamesOf(data) :
        \/ SimOfName(data, m, q) > SimOfName(data, n, q)
        \/ /\ SimOfName(data, m, q) = SimOfName(data, n, q)
           /\ KeyIndex(data, m, 1) < KeyIndex(data, n, 1) })

StableTop3(data, q) == { n \in NamesOf(data) : StableRank(data, n, q) < 3 }

ListSet(l) == { l[i] : i \in 1..Len(l) }

(***************************************************************************)
(* C5                                                                      *)
(***************************************************************************)
BoundedTop3(data, result, q) ==
    /\ Len(result) <= 3
    /\ \A i \in 1..Len(result) : AmongTop3(data, result[i].name, q)

\* C5: for every dataset, duplicates and ties included, at most 3 course
\* records and at most 3 instructor records are returned, each with a name
\* among the 3 highest similarities of its category.
C5_AtMostThree ==
    phase = "done" =>
        /\ BoundedTop3(courses, matched.matched_courses, matched.query)
        /\ BoundedTop3(instructors, matched.matched_instructors, matched.query)

(***************************************************************************)
(* C8                                                                      *)
(***************************************************************************)
\* C8 as stated: among records of equal similarity the dataset order alone
\* decides which names enter the top 3.
C8_AsStated ==
    phase = "done" =>
        /\ ListSet(matched.relevant_courses) = StableTop3(courses, matched.query)
        /\ ListSet(matched.relevant_instructors) = StableTop3(instructors, matched.query)

RankedByTuple(data, relevant, q) ==
    /\ Len(relevant) = Min3(Cardinality(NamesOf(data)))
    /\ \A i \in 1..Len(relevant) : relevant[i] \in NamesOf(data)
    /\ \A i, j \in 1..Len(relevant) :
         i < j => RankedBefore(data, relevant[i], relevant[j], q)
    /\ \A n \in ListSet(relevant) : \A m \in NamesOf(data) \ ListSet(relevant) :
         RankedBefore(data, n, m, q)

\* C8 amended: the ranking compares (similarity, name) pairs, so among
\* names of equal similarity the later name in string order comes first and
\* the dataset order takes no part.
C8_TieByName ==
    phase = "done" =>
        /\ RankedByTuple(courses, matched.relevant_courses, matched.query)
        /\ RankedByTuple(instructors, matched.relevant_instructors, matched.query)

C8_Witness ==
    /\ phase = "done"
    /\ Cardinality(NamesOf(courses)) = 4
    /\ \A n, m \in NamesOf(courses) :
         SimOfName(courses, n, matched.query) = SimOfName(courses, m, matched.query)
    /\ courses[1].name = "A"
    /\ matched.relevant_courses = <<"D", "C", "B">>

(***************************************************************************)
(* C6                                                                      *)
(***************************************************************************)
\* the session after request r is served alone on session sess
Served(sess, r) ==
    SetCookie(sess, sess, query(sess, reqData[r].data, r, reqData[r].env).session)

\* the session after the two requests are served one after the other
Serial(first, second) == Served(Served(cookie0, first), second)

SerialHistories(c) == { History(Serial(1, 2), c), History(Serial(2, 1), c) }

BothDone == \A r \in Requests : pc[r] = "done"

SameConversation ==
    reqData[1].data.conversationId = reqData[2].data.conversationId

RaceCid == reqData[1].data.conversationId[1]

\* the request answered last had read the session before the other
\* request's response was stored
Overlapped == loadedAt[stored[2]] = 0

HasTurnOf(h, r) ==
    \E i \in 1..Len(h) :
        /\ h[i].role = "user"
        /\ h[i].content = Strip(reqData[r].data.query)

\* C6: two requests of one session on the same conversation race on the
\* history: whenever the request answered last read the session before the
\* other's response was stored, the stored history is that of neither serial
\* order (the turns of the request answered first are lost); otherwise it is
\* the history of serving them in the order of their responses.
C6_LostUpdate ==
    (BothDone /\ SameConversation) =>
        /\ Overlapped =>
             /\ History(cookie, RaceCid) \notin SerialHistories(RaceCid)
             /\ Len(History(cookie, RaceCid))
                  < Len(History(Serial(stored[1], stored[2]), RaceCid))
        /\ ~Overlapped =>
             History(cookie, RaceCid)
               = History(Serial(stored[1], stored[2]), RaceCid)

C6_Witness ==
    /\ BothDone /\ SameConversation /\ Overlapped
    /\ RaceCid = "c1"
    /\ reqData[1].data.query # reqData[2].data.query
    /\ \A r \in Requests : reqData[r].env.kind = "ok"
    /\ History(cookie, "c1") \notin SerialHistories("c1")
    /\ HasTurnOf(History(cookie, "c1"), stored[2])
    /\ ~HasTurnOf(History(cookie, "c1"), stored[1])

====
